---- MODULE Spec2Model ----
(***************************************************************************)
(* MedHealth.ai: the Medicine OCR Assistant page (a React component).      *)
(*                                                                         *)
(* The state is the component's useState cells, the requests in flight     *)
(* (each one the suspended continuation of a handler, holding the values   *)
(* its closure captured when it was issued) and the build-time API key.    *)
(* One action per user event that the rendered page lets happen, and one   *)
(* per continuation that resumes when a fetch settles.  A handler runs to  *)
(* its first await without interleaving (JavaScript is single threaded),   *)
(* and React re-renders before the next event is dispatched, so every      *)
(* event sees the disabled attributes computed from the current state.     *)
(***************************************************************************)
EXTENDS Integers, Sequences, FiniteSets, TLC

\* ------------------------------------------------------------------ bounds
NDocs == 2
MaxQLen == 2
NReplies == 2
\* the completion provider's maximum input size, in characters
ProviderMaxInput == 88
\* POST /api/users requests the server works on at once
MaxRequests == 2

\* ------------------------------------------------------------------ values
NoFile == 0
Docs == 1..NDocs

\* the type of the file the user picks: the accept attribute of the input only
\* presets the picker's filter, any file can be chosen
MediaType(d) ==
  IF d = NDocs THEN "text/plain"
  ELSE IF d % 2 = 1 THEN "image/png" ELSE "application/pdf"

\* accept="image/*,.pdf"
SupportedMedia(d) == MediaType(d) \in {"image/png", "application/pdf"}

\* a JSON field that is absent reads as undefined
Undefined == "<undefined>"

\* what the OCR / analysis provider extracts from document d
OcrText(d) == "T" \o ToString(d)
AnalysisOf(d) == "A" \o ToString(d)

\* the k-th possible completion for a prompt built on extracted text t
Reply(k, t) == "R" \o ToString(k) \o "/" \o t

RepliesFor(t) == { Reply(k, t) : k \in 1..NReplies }

NoResponse == "No response received"

\* characters a question is typed from: a blank and a letter
Chars == {" ", "a"}

Questions == UNION { [1..n -> Chars] : n \in 0..MaxQLen }

\* JavaScript truthiness of a value that is a string or undefined
Truthy(v) == v # "" /\ v # Undefined

\* String.prototype.trim on a sequence of characters
RECURSIVE TrimLeft(_)
TrimLeft(s) ==
  IF s = <<>> THEN s
  ELSE IF Head(s) = " " THEN TrimLeft(Tail(s)) ELSE s

RECURSIVE TrimRight(_)
TrimRight(s) ==
  IF s = <<>> THEN s
  ELSE IF s[Len(s)] = " " THEN TrimRight(SubSeq(s, 1, Len(s) - 1)) ELSE s

trim(s) == TrimRight(TrimLeft(s))

\* ------------------------------------------------------------------- state
VARIABLES file, text, analysis, question, followUp, loading, uploadComplete,
          pending, failed, apiKey, users, requests

\* the Medicine OCR page
pageVars == <<file, text, analysis, question, followUp, loading, uploadComplete,
              pending, failed, apiKey>>

\* the API server: the User collection and the POST /api/users requests it
\* is working on
serverVars == <<users, requests>>

vars == <<file, text, analysis, question, followUp, loading, uploadComplete,
          pending, failed, apiKey, users, requests>>

\* the template literal the follow-up prompt is built with, piece by piece
PromptPrefix == "The user uploaded this medicine content:\n"

PromptMiddle == "\nNow they ask: "

PromptSuffix == "\nGive a clear medical answer."

prompt(t, q) == <<PromptPrefix, t, PromptMiddle, q, PromptSuffix>>

\* the number of characters of a prompt
PromptSize(p) == Len(p[1]) + Len(p[2]) + Len(p[3]) + Len(p[4]) + Len(p[5])

\* the prompt a follow-up request carries in its body
PromptOf(req) == prompt(req.promptText, req.promptQuestion)

\* a fetch that has not settled yet
NotSettled == [kind |-> "none", text |-> "", analysis |-> "", reply |-> ""]

\* the request a suspended handler waits for, with what its closure captured
UploadRequest(f) ==
  [kind |-> "upload", formData |-> f, promptText |-> "", promptQuestion |-> <<>>,
   response |-> NotSettled]

AskRequest(t, q) ==
  [kind |-> "ask", formData |-> NoFile, promptText |-> t, promptQuestion |-> q,
   response |-> NotSettled]

\* what a fetch to the analysis provider can settle with, for document d:
\* a rejected fetch, a non-2xx status, a body that is not JSON, or a JSON body
UploadResponses(d) ==
  { [kind |-> k, text |-> "", analysis |-> "", reply |-> ""] :
      k \in {"rejected", "status", "badjson"} }
  \cup
  { [kind |-> "ok", text |-> t, analysis |-> a, reply |-> ""] :
      t \in {OcrText(d), "", Undefined}, a \in {AnalysisOf(d), Undefined} }

\* what a fetch to the completion provider can settle with, for prompt text t
AskResponses(t) ==
  { [kind |-> k, text |-> "", analysis |-> "", reply |-> ""] :
      k \in {"rejected", "status", "badjson"} }
  \cup
  { [kind |-> "ok", text |-> "", analysis |-> "", reply |-> r] :
      r \in RepliesFor(t) \cup {"", Undefined} }

\* the error the alert of a catch block reports, from the kind of failure
ErrorKind(k) ==
  CASE k = "rejected" -> "NetworkUnavailable"
    [] k = "status" -> "ProviderError"
    [] k = "badjson" -> "MalformedProviderResponse"
    [] OTHER -> "none"

RemoveAt(s, i) == SubSeq(s, 1, i - 1) \o SubSeq(s, i + 1, Len(s))

Init ==
  /\ file = NoFile
  /\ text = ""
  /\ analysis = ""
  /\ question = <<>>
  /\ followUp = ""
  /\ loading = FALSE
  /\ uploadComplete = FALSE
  /\ pending = <<>>
  /\ failed = "none"
  /\ apiKey \in BOOLEAN
  /\ users = <<>>
  /\ requests = <<>>

\* ------------------------------------------------------------- the render
UploadDisabled_IgnoresLoading == file = NoFile

UploadDisabled == file = NoFile \/ loading

ResultsRendered == Truthy(text)

QuestionInputDisabled == ~uploadComplete

AskDisabled_IgnoresUploadComplete == trim(question) = <<>> \/ loading

AskDisabled_NoTrim == ~uploadComplete \/ question = <<>> \/ loading

AskDisabled == ~uploadComplete \/ trim(question) = <<>> \/ loading

\* ---------------------------------------------------------------- handlers
handleFileChange_KeepsFollowUp(selectedFile) ==
  /\ file' = selectedFile
  /\ text' = ""
  /\ analysis' = ""
  /\ uploadComplete' = FALSE
  /\ failed' = "none"
  /\ UNCHANGED <<followUp, question, loading, pending, apiKey>>

handleFileChange_ResetsLoading(selectedFile) ==
  /\ file' = selectedFile
  /\ text' = ""
  /\ analysis' = ""
  /\ followUp' = ""
  /\ uploadComplete' = FALSE
  /\ loading' = FALSE
  /\ failed' = "none"
  /\ UNCHANGED <<question, pending, apiKey>>

handleFileChange(selectedFile) ==
  /\ file' = selectedFile
  /\ text' = ""
  /\ analysis' = ""
  /\ followUp' = ""
  /\ uploadComplete' = FALSE
  /\ failed' = "none"
  /\ UNCHANGED <<question, loading, pending, apiKey>>

handleUpload_KeepsUploadComplete ==
  IF file = NoFile
  THEN UNCHANGED vars
  ELSE /\ loading' = TRUE
       /\ pending' = Append(pending, UploadRequest(file))
       /\ failed' = "none"
       /\ UNCHANGED <<file, text, analysis, question, followUp,
                      uploadComplete, apiKey>>

handleUpload_ClearsText ==
  IF file = NoFile
  THEN UNCHANGED vars
  ELSE /\ loading' = TRUE
       /\ uploadComplete' = FALSE
       /\ text' = ""
       /\ analysis' = ""
       /\ pending' = Append(pending, UploadRequest(file))
       /\ failed' = "none"
       /\ UNCHANGED <<file, question, followUp, apiKey>>

\* handleUpload up to its await
handleUpload ==
  IF file = NoFile
  THEN UNCHANGED vars
  ELSE /\ loading' = TRUE
       /\ uploadComplete' = FALSE
       /\ pending' = Append(pending, UploadRequest(file))
       /\ failed' = "none"
       /\ UNCHANGED <<file, text, analysis, question, followUp, apiKey>>

handleUploadResume_KeepsFollowUp(i) ==
  LET res == pending[i].response IN
  /\ pending' = RemoveAt(pending, i)
  /\ loading' = FALSE
  /\ IF res.kind = "ok"
     THEN /\ text' = res.text
          /\ analysis' = res.analysis
          /\ uploadComplete' = TRUE
          /\ UNCHANGED <<followUp, failed>>
     ELSE /\ failed' = ErrorKind(res.kind)
          /\ UNCHANGED <<text, analysis, followUp, uploadComplete>>
  /\ UNCHANGED <<file, question, apiKey>>

handleUploadResume_NoUploadComplete(i) ==
  LET res == pending[i].response IN
  /\ pending' = RemoveAt(pending, i)
  /\ loading' = FALSE
  /\ IF res.kind = "ok"
     THEN /\ text' = res.text
          /\ analysis' = res.analysis
          /\ followUp' = ""
          /\ UNCHANGED <<uploadComplete, failed>>
     ELSE /\ failed' = ErrorKind(res.kind)
          /\ UNCHANGED <<text, analysis, followUp, uploadComplete>>
  /\ UNCHANGED <<file, question, apiKey>>

handleUploadResume_ClearsOnError(i) ==
  LET res == pending[i].response IN
  /\ pending' = RemoveAt(pending, i)
  /\ loading' = FALSE
  /\ IF res.kind = "ok"
     THEN /\ text' = res.text
          /\ analysis' = res.analysis
          /\ followUp' = ""
          /\ uploadComplete' = TRUE
          /\ UNCHANGED failed
     ELSE /\ failed' = ErrorKind(res.kind)
          /\ text' = ""
          /\ analysis' = ""
          /\ UNCHANGED <<followUp, uploadComplete>>
  /\ UNCHANGED <<file, question, apiKey>>

handleUploadResume_RetriesOnError(i) ==
  LET res == pending[i].response IN
  IF res.kind = "ok"
  THEN /\ pending' = RemoveAt(pending, i)
       /\ loading' = FALSE
       /\ text' = res.text
       /\ analysis' = res.analysis
       /\ followUp' = ""
       /\ uploadComplete' = TRUE
       /\ UNCHANGED <<failed, file, question, apiKey>>
  ELSE /\ pending' = [pending EXCEPT ![i].response = NotSettled]
       /\ failed' = ErrorKind(res.kind)
       /\ UNCHANGED <<loading, text, analysis, followUp, uploadComplete,
                      file, question, apiKey>>

handleUploadResume_LoadingStuckOnError(i) ==
  LET res == pending[i].response IN
  /\ pending' = RemoveAt(pending, i)
  /\ IF res.kind = "ok"
     THEN /\ text' = res.text
          /\ analysis' = res.analysis
          /\ followUp' = ""
          /\ uploadComplete' = TRUE
          /\ loading' = FALSE
          /\ UNCHANGED failed
     ELSE /\ failed' = ErrorKind(res.kind)
          /\ UNCHANGED <<text, analysis, followUp, uploadComplete, loading>>
  /\ UNCHANGED <<file, question, apiKey>>

\* handleUpload from its await to its end, the fetch having settled
handleUploadResume(i) ==
  LET res == pending[i].response IN
  /\ pending' = RemoveAt(pending, i)
  /\ loading' = FALSE
  /\ IF res.kind = "ok"
     THEN /\ text' = res.text
          /\ analysis' = res.analysis
          /\ followUp' = ""
          /\ uploadComplete' = TRUE
          /\ UNCHANGED failed
     ELSE /\ failed' = ErrorKind(res.kind)
          /\ UNCHANGED <<text, analysis, followUp, uploadComplete>>
  /\ UNCHANGED <<file, question, apiKey>>

askFollowUp_TruncatesQuestion ==
  IF question = <<>> \/ ~Truthy(text)
  THEN UNCHANGED vars
  ELSE IF ~apiKey
  THEN /\ loading' = FALSE
       /\ failed' = "ConfigError"
       /\ UNCHANGED <<file, text, analysis, question, followUp,
                      uploadComplete, pending, apiKey>>
  ELSE /\ loading' = TRUE
       /\ pending' = Append(pending, AskRequest(text, SubSeq(question, 1, 1)))
       /\ failed' = "none"
       /\ UNCHANGED <<file, text, analysis, question, followUp,
                      uploadComplete, apiKey>>

\* askFollowUp up to its await (or to its end, when it throws before fetching)
askFollowUp ==
  IF question = <<>> \/ ~Truthy(text)
  THEN UNCHANGED vars
  ELSE IF ~apiKey
  THEN /\ loading' = FALSE
       /\ failed' = "ConfigError"
       /\ UNCHANGED <<file, text, analysis, question, followUp,
                      uploadComplete, pending, apiKey>>
  ELSE /\ loading' = TRUE
       /\ pending' = Append(pending, AskRequest(text, question))
       /\ failed' = "none"
       /\ UNCHANGED <<file, text, analysis, question, followUp,
                      uploadComplete, apiKey>>

askFollowUpResume_KeepsFirstAnswer(i) ==
  LET res == pending[i].response IN
  /\ pending' = RemoveAt(pending, i)
  /\ loading' = FALSE
  /\ IF res.kind = "ok"
     THEN /\ followUp' = (IF followUp # "" THEN followUp
                          ELSE IF Truthy(res.reply) THEN res.reply
                          ELSE NoResponse)
          /\ UNCHANGED failed
     ELSE /\ failed' = ErrorKind(res.kind)
          /\ UNCHANGED followUp
  /\ UNCHANGED <<file, text, analysis, question, uploadComplete, apiKey>>

askFollowUpResume_NoFallback(i) ==
  LET res == pending[i].response IN
  /\ pending' = RemoveAt(pending, i)
  /\ loading' = FALSE
  /\ IF res.kind = "ok"
     THEN /\ followUp' = res.reply
          /\ UNCHANGED failed
     ELSE /\ failed' = ErrorKind(res.kind)
          /\ UNCHANGED followUp
  /\ UNCHANGED <<file, text, analysis, question, uploadComplete, apiKey>>

\* askFollowUp from its await to its end, the fetch having settled
askFollowUpResume(i) ==
  LET res == pending[i].response IN
  /\ pending' = RemoveAt(pending, i)
  /\ loading' = FALSE
  /\ IF res.kind = "ok"
     THEN /\ followUp' = (IF Truthy(res.reply) THEN res.reply ELSE NoResponse)
          /\ UNCHANGED failed
     ELSE /\ failed' = ErrorKind(res.kind)
          /\ UNCHANGED followUp
  /\ UNCHANGED <<file, text, analysis, question, uploadComplete, apiKey>>

\* ----------------------------------------------------------------- actions
\* the user picks a file, or cancels the picker (files[0] is then absent)
SelectFile ==
  /\ \E selectedFile \in (Docs \cup {NoFile}) \ {file} :
       handleFileChange(selectedFile)
  /\ UNCHANGED serverVars

\* the user edits the question input
TypeQuestion ==
  /\ ResultsRendered
  /\ ~QuestionInputDisabled
  /\ \E q \in Questions \ {question} : question' = q
  /\ UNCHANGED <<file, text, analysis, followUp, loading, uploadComplete,
                 pending, failed, apiKey>>
  /\ UNCHANGED serverVars

\* the user clicks "Upload & Analyze"
ClickUpload ==
  /\ ~UploadDisabled
  /\ handleUpload
  /\ UNCHANGED serverVars

\* the user clicks "Ask"
ClickAsk ==
  /\ ResultsRendered
  /\ ~AskDisabled
  /\ askFollowUp
  /\ UNCHANGED serverVars

\* a provider answers, or the connection fails
FetchSettles ==
  \E i \in DOMAIN pending :
    /\ pending[i].response = NotSettled
    /\ \E res \in (IF pending[i].kind = "upload"
                   THEN UploadResponses(pending[i].formData)
                   ELSE AskResponses(pending[i].promptText)) :
         pending' = [pending EXCEPT ![i].response = res]
    /\ UNCHANGED <<file, text, analysis, question, followUp, loading,
                   uploadComplete, failed, apiKey>>
    /\ UNCHANGED serverVars

UploadResumes ==
  \E i \in DOMAIN pending :
    /\ pending[i].kind = "upload"
    /\ pending[i].response # NotSettled
    /\ handleUploadResume(i)
    /\ UNCHANGED serverVars

AskResumes ==
  \E i \in DOMAIN pending :
    /\ pending[i].kind = "ask"
    /\ pending[i].response # NotSettled
    /\ askFollowUpResume(i)
    /\ UNCHANGED serverVars

Next ==
  \/ SelectFile
  \/ TypeQuestion
  \/ ClickUpload
  \/ ClickAsk
  \/ FetchSettles
  \/ UploadResumes
  \/ AskResumes

Spec == Init /\ [][Next]_vars

\* every fetch settles at some time, and a handler whose fetch has settled
\* resumes (the event loop runs its continuation)
FairSpec ==
  /\ Spec
  /\ WF_vars(FetchSettles)
  /\ WF_vars(UploadResumes)
  /\ WF_vars(AskResumes)

\* ------------------------------------------------------------ the API server
\* the principals the identity provider authenticates
ClerkIds == {"user_a", "user_b"}

\* the name and e-mail address a sync request carries in its body
Profiles == { [name |-> "n1", email |-> "e1"], [name |-> "n2", email |-> "e2"] }

\* findOne found nothing
NoUser == [id |-> 0, clerkId |-> "", name |-> "", email |-> ""]

\* the documents of the collection with this clerkId, by position
Matching(c) == { k \in DOMAIN users : users[k].clerkId = c }

\* User.findOne({ clerkId }): the first matching document, or null
findOne(c) ==
  IF Matching(c) = {} THEN NoUser
  ELSE users[CHOOSE k \in Matching(c) : \A j \in Matching(c) : k <= j]

\* the dashboard's sync effect posts the signed-in user's profile; the effect
\* runs again whenever one of its dependencies changes, whether or not an
\* earlier sync has finished.  The handler has read the body and the
\* authenticated clerkId and awaits findOne.
PostUsers ==
  /\ Len(requests) < MaxRequests
  /\ \E c \in ClerkIds, body \in Profiles :
       requests' = Append(requests,
                          [clerkId |-> c, name |-> body.name,
                           email |-> body.email, pc |-> "findOne",
                           user |-> NoUser])
  /\ UNCHANGED users
  /\ UNCHANGED pageVars

\* the handler from the result of findOne to its await of save, or to its
\* response when a user was found
FindOneReturns ==
  \E i \in DOMAIN requests :
    /\ requests[i].pc = "findOne"
    /\ LET user == findOne(requests[i].clerkId) IN
         requests' = [requests EXCEPT
                        ![i].user = user,
                        ![i].pc = IF user = NoUser THEN "save" ELSE "respond"]
    /\ UNCHANGED users
    /\ UNCHANGED pageVars

\* user.save() inserts the document built from the request
SaveReturns ==
  \E i \in DOMAIN requests :
    /\ requests[i].pc = "save"
    /\ LET user == [id |-> Len(users) + 1, clerkId |-> requests[i].clerkId,
                    name |-> requests[i].name, email |-> requests[i].email] IN
         /\ users' = Append(users, user)
         /\ requests' = [requests EXCEPT ![i].user = user, ![i].pc = "respond"]
    /\ UNCHANGED pageVars

\* res.json(user)
Responds ==
  \E i \in DOMAIN requests :
    /\ requests[i].pc = "respond"
    /\ requests' = RemoveAt(requests, i)
    /\ UNCHANGED users
    /\ UNCHANGED pageVars

ServerNext ==
  \/ PostUsers
  \/ FindOneReturns
  \/ SaveReturns
  \/ Responds

ServerSpec == Init /\ [][ServerNext]_vars

\* ------------------------------------------------------ the session's phase
\* The page keeps no tagged state; the phase is read off its flags, the
\* requests in flight and whether the last request ended in an alert.
InFlight(k) == \E i \in DOMAIN pending : pending[i].kind = k

Phase ==
  IF InFlight("upload") THEN "Uploading"
  ELSE IF InFlight("ask") THEN "QueryInFlight"
  ELSE IF failed # "none" THEN "Failed"
  ELSE IF uploadComplete THEN "Analyzed"
  ELSE "Idle"

\* the follow-up controls are on the page and usable
FollowUpsEnabled == ResultsRendered /\ ~QuestionInputDisabled /\ ~loading

\* steps, recognised by what they do to the requests in flight
Issued(k) ==
  /\ Len(pending') = Len(pending) + 1
  /\ pending'[Len(pending')].kind = k

Resumed(k) ==
  /\ Len(pending) = 1
  /\ pending[1].kind = k
  /\ pending' = <<>>

Selected == file' # file

\* a fetch is started in this step
NewRequest ==
  \E i \in DOMAIN pending' :
    /\ pending'[i].response = NotSettled
    /\ (i \notin DOMAIN pending \/ pending[i] # pending'[i])

TypeOK ==
  /\ file \in Docs \cup {NoFile}
  /\ question \in Questions
  /\ loading \in BOOLEAN
  /\ uploadComplete \in BOOLEAN
  /\ apiKey \in BOOLEAN
  /\ loading <=> pending # <<>>
\* ------------------------------------------------------------------ claims

\* C1: while an analysis request has not resolved, no further request is
\* issued: a second "Upload & Analyze" is refused, so one network call is made.
C1_SecondAnalysisRejected ==
  [][InFlight("upload") => (Len(pending) = 1 /\ ~Issued("upload") /\ ~Issued("ask"))]_vars

\* an analysis is in flight for a selected document, where a second click
\* on "Upload & Analyze" is what the guard has to refuse
C1_Witness ==
  /\ InFlight("upload")
  /\ file # NoFile
  /\ pending[1].response = NotSettled

\* C2 (as claimed): the answer to a follow-up that was overtaken by a new
\* document selection is discarded when it arrives, followUp keeps its value.
C2_StaleAnswerDiscarded ==
  [][(Resumed("ask") /\ pending[1].promptText # text) => followUp' = followUp]_vars

\* C2 (amended): the overtaken answer is stored in followUp but the results
\* section is not rendered then, and whenever the results section comes back
\* into view followUp has been cleared, so the answer is never shown.
C2_StaleAnswerNeverShown ==
  [][/\ (Resumed("ask") /\ pending[1].promptText # text) => ~ResultsRendered'
     /\ (~ResultsRendered /\ ResultsRendered') => followUp' = ""]_vars

\* an overtaken answer has arrived: followUp holds an answer and no text is held
C2_Witness ==
  /\ followUp # ""
  /\ text = ""
  /\ pending = <<>>
  /\ file # NoFile

\* C3: the session is never Analyzed with a result computed for a document
\* other than the selected one (the response of an overtaken analysis is
\* dropped).
C3_StaleAnalysisDiscarded ==
  uploadComplete => text \in {OcrText(file), "", Undefined}

\* C4 (as claimed): a follow-up network call is issued only from Analyzed.
C4_AskOnlyWhenAnalyzed ==
  [][Issued("ask") => Phase = "Analyzed"]_vars

\* C4 (amended): a follow-up network call is issued only when no request is
\* pending and a completed analysis is held, that is from Analyzed or from
\* Failed after a follow-up failure; never from Idle, Uploading,
\* QueryInFlight or Failed after an analysis failure.
C4_AskOnlyWithCompletedAnalysis ==
  [][Issued("ask") =>
       /\ pending = <<>>
       /\ uploadComplete
       /\ Truthy(text)
       /\ Phase \in {"Analyzed", "Failed"}]_vars

\* a follow-up failed, the analysis is still held and Ask can be clicked again
C4_Witness ==
  /\ Phase = "Failed"
  /\ failed # "ConfigError"
  /\ uploadComplete
  /\ ResultsRendered
  /\ ~AskDisabled

\* C5: selecting a document while Analyzed or Failed returns the session to
\* Idle and clears the extracted text, the analysis and the follow-up answer.
C5_SelectionResets ==
  [][(Selected /\ Phase \in {"Analyzed", "Failed"}) =>
       /\ Phase' = "Idle"
       /\ text' = ""
       /\ analysis' = ""
       /\ followUp' = ""]_vars

\* a document was selected after an analysis: a question typed against the
\* earlier analysis is still in the input, the session is Idle and empty
C5_Witness ==
  /\ Phase = "Idle"
  /\ file # NoFile
  /\ question # <<>>
  /\ text = ""
  /\ analysis = ""
  /\ followUp = ""

\* C6: with an empty or whitespace-only question no follow-up network call is
\* issued, in any state.
C6_BlankQuestionRejected ==
  [][trim(question) = <<>> => ~Issued("ask")]_vars

\* Analyzed, nothing in flight, and the question is blanks only
C6_Witness ==
  /\ Phase = "Analyzed"
  /\ FollowUpsEnabled
  /\ apiKey
  /\ question # <<>>
  /\ trim(question) = <<>>

\* the answers the page holds
AnswersHeld == IF followUp = "" THEN {} ELSE {followUp}

\* C7 (as claimed): a successful follow-up only adds an answer, the answers
\* held before it are still held after it.
C7_AnswersOnlyAppended ==
  [][(Resumed("ask") /\ pending[1].response.kind = "ok") =>
       AnswersHeld \subseteq AnswersHeld']_vars

\* C7 (amended): a successful follow-up stores the provider's returned text
\* (the placeholder when the reply is absent or empty) as the one answer held,
\* replacing the answer held before.
C7_AnswerReplaced ==
  [][(Resumed("ask") /\ pending[1].response.kind = "ok") =>
       /\ followUp' = (IF Truthy(pending[1].response.reply)
                       THEN pending[1].response.reply ELSE NoResponse)
       /\ AnswersHeld' = {followUp'}]_vars

\* a second answer is about to replace a different first one
C7_Witness ==
  /\ Len(pending) = 1
  /\ pending[1].kind = "ask"
  /\ pending[1].response.kind = "ok"
  /\ Truthy(pending[1].response.reply)
  /\ followUp # ""
  /\ followUp # pending[1].response.reply
  /\ pending[1].promptText = text

\* the provider's JSON carries both fields
BothFields(res) == res.kind = "ok" /\ res.text # Undefined /\ res.analysis # Undefined

\* C8 (as claimed): after a successful analysis response {text: T, analysis: A}
\* the session is Analyzed with exactly T and A and follow-ups are enabled.
C8_AnalysisStoredAndEnabled ==
  [][(Resumed("upload") /\ BothFields(pending[1].response)) =>
       /\ text' = pending[1].response.text
       /\ analysis' = pending[1].response.analysis
       /\ Phase' = "Analyzed"
       /\ FollowUpsEnabled']_vars

\* C8 (amended): ... with exactly T and A, and follow-ups are enabled exactly
\* when T is not empty.
C8_AnalysisStored ==
  [][(Resumed("upload") /\ BothFields(pending[1].response)) =>
       /\ text' = pending[1].response.text
       /\ analysis' = pending[1].response.analysis
       /\ Phase' = "Analyzed"
       /\ uploadComplete'
       /\ (FollowUpsEnabled' <=> pending[1].response.text # "")]_vars

\* an analysis has completed: the provider's text and analysis are held
C8_Witness ==
  /\ Phase = "Analyzed"
  /\ file # NoFile
  /\ text = OcrText(file)
  /\ analysis = AnalysisOf(file)
  /\ FollowUpsEnabled

\* C9: a non-2xx analysis response leaves the session Failed(ProviderError),
\* not Analyzed, with the selected document unchanged.
C9_ProviderErrorFails ==
  [][(Resumed("upload") /\ pending[1].response.kind = "status") =>
       /\ Phase' = "Failed"
       /\ failed' = "ProviderError"
       /\ ~uploadComplete'
       /\ ~FollowUpsEnabled'
       /\ file' = file]_vars

\* a re-analysis of an analysed document got a non-2xx status
C9_Witness ==
  /\ Phase = "Failed"
  /\ failed = "ProviderError"
  /\ ~uploadComplete
  /\ file # NoFile
  /\ text = OcrText(file)

\* C10: a failed analysis or follow-up request leaves the session Failed and
\* keeps the extracted text, the analysis and the follow-up answer held.
C10_FailureKeepsResult ==
  [][((Resumed("upload") \/ Resumed("ask")) /\ pending[1].response.kind # "ok") =>
       /\ Phase' = "Failed"
       /\ text' = text
       /\ analysis' = analysis
       /\ followUp' = followUp]_vars

\* a re-analysis failed and the earlier text, analysis and answer are still held
C10_Witness ==
  /\ Phase = "Failed"
  /\ ~uploadComplete
  /\ Truthy(text)
  /\ Truthy(analysis)
  /\ followUp # ""
\* C11: a request refused for a validation reason leaves the state as it was;
\* for UnsupportedMediaType: selecting a file that is neither an image nor a
\* PDF changes neither the selected document nor what is held for it.
C11_RejectionChangesNothing ==
  [][(Selected /\ file' \in Docs /\ ~SupportedMedia(file') /\ Truthy(text)) =>
       /\ file' = file
       /\ text' = text
       /\ analysis' = analysis
       /\ followUp' = followUp
       /\ uploadComplete' = uploadComplete
       /\ loading' = loading
       /\ pending' = pending]_vars

\* C12: at most one network operation is pending, in every reachable state.
C12_SingleFlight == Len(pending) <= 1

\* a document was selected while the analysis of another is still in flight:
\* a new analysis of the selected document is what must wait
C12_Witness ==
  /\ Len(pending) = 1
  /\ pending[1].kind = "upload"
  /\ file # NoFile
  /\ file # pending[1].formData

\* C13 (as claimed): an analysis is requested only from Idle or Failed, never
\* for a document that is Analyzed.
C13_AnalysisOnlyFromIdleOrFailed ==
  [][Issued("upload") => Phase \in {"Idle", "Failed"}]_vars

\* C13 (amended): the extracted text and the analysis change only when a
\* document is selected or when an analysis completes successfully; an
\* analysis is requested only for a selected document with no request pending.
C13_ResultChangesOnlyBySelectionOrAnalysis ==
  [][/\ (text' # text \/ analysis' # analysis) =>
          \/ Selected
          \/ (Resumed("upload") /\ pending[1].response.kind = "ok")
     /\ Issued("upload") =>
          /\ pending = <<>>
          /\ file # NoFile
          /\ pending'[1].formData = file]_vars

\* an analysed document is being analysed again
C13_Witness ==
  /\ Phase = "Uploading"
  /\ pending[1].formData = file
  /\ text = OcrText(file)
  /\ analysis = AnalysisOf(file)

\* C14: the session is never Analyzed with the extracted text or the analysis
\* missing: a 2xx response that lacks a field fails the analysis.
C14_MissingFieldFails ==
  uploadComplete => (text # Undefined /\ analysis # Undefined)
\* C15 (as claimed): a 2xx follow-up response without the candidate/content/
\* text path fails the follow-up: the session is Failed and no answer is
\* recorded.
C15_MissingReplyFails ==
  [][(Resumed("ask") /\ pending[1].response.kind = "ok"
        /\ pending[1].response.reply = Undefined) =>
       /\ Phase' = "Failed"
       /\ followUp' = followUp]_vars

\* C15 (amended): such a response does not fail the follow-up: the placeholder
\* is recorded as the follow-up answer and no failure is reported.
C15_MissingReplyGivesPlaceholder ==
  [][(Resumed("ask") /\ pending[1].response.kind = "ok"
        /\ pending[1].response.reply = Undefined) =>
       /\ followUp' = NoResponse
       /\ failed' = "none"
       /\ Phase' # "Failed"]_vars

\* the placeholder is shown as the answer of an analysed document
C15_Witness ==
  /\ followUp = NoResponse
  /\ Phase = "Analyzed"
  /\ ResultsRendered

\* C16: a fetch is started only by a click the page allows, with nothing
\* pending, carrying the inputs of that moment; and a Failed session stays
\* Failed until a document is selected or a request is made.
C16_NoAutoRetry ==
  [][/\ NewRequest =>
          /\ pending = <<>>
          /\ ~loading
          /\ Len(pending') = 1
          /\ pending'[1].kind = "upload" =>
               (~UploadDisabled /\ pending'[1].formData = file)
          /\ pending'[1].kind = "ask" =>
               (ResultsRendered /\ ~AskDisabled
                  /\ PromptOf(pending'[1]) = prompt(text, question))
     /\ Phase = "Failed" => (Phase' = "Failed" \/ Selected \/ NewRequest)]_vars

\* a request has failed, nothing is pending and the user can ask again
C16_Witness ==
  /\ Phase = "Failed"
  /\ failed \in {"NetworkUnavailable", "ProviderError", "MalformedProviderResponse"}
  /\ pending = <<>>
  /\ ~UploadDisabled

\* C17 (as claimed): when the combined prompt is larger than the provider's
\* maximum no follow-up network call is issued.
C17_PromptTooLargeRejected ==
  [][PromptSize(prompt(text, question)) > ProviderMaxInput => ~Issued("ask")]_vars

\* C17 (amended): the follow-up request carries the stored text and the question
\* verbatim, whatever the size of the prompt; there is no size check.
C17_PromptVerbatim ==
  [][Issued("ask") =>
       /\ PromptOf(pending'[Len(pending')]) = prompt(text, question)
       /\ PromptSize(PromptOf(pending'[Len(pending')])) =
            Len(PromptPrefix) + Len(text) + Len(PromptMiddle) + Len(question)
              + Len(PromptSuffix)]_vars

\* a follow-up is in flight whose prompt is larger than the provider's maximum
C17_Witness ==
  /\ InFlight("ask")
  /\ PromptSize(PromptOf(pending[1])) > ProviderMaxInput

\* C18: every request that is in flight is eventually over, with loading reset
\* (given that its fetch settles).
C18_LoadingEventuallyReset ==
  loading ~> (~loading /\ pending = <<>>)

\* a request has failed and the page accepts a further request
C18_Witness ==
  /\ failed \in {"NetworkUnavailable", "ProviderError", "MalformedProviderResponse"}
  /\ ~loading
  /\ pending = <<>>
  /\ ~UploadDisabled
  /\ ~uploadComplete
\* C19: after any interleaving of POST /api/users requests the collection
\* holds at most one User per clerkId.
C19_OneUserPerClerkId ==
  \A c \in ClerkIds : Cardinality(Matching(c)) <= 1
====
